---- MODULE Spec2Model ----
(***************************************************************************)
(* Model of sentry/web/frontend/base.py: the Access grant, the            *)
(* organization / team / project scope resolvers of OrganizationMixin and *)
(* the dispatch pipeline of BaseView and its three scoped subclasses.     *)
(*                                                                         *)
(* Three specifications share the module:                                  *)
(*   Spec      one request at a time through BaseView.dispatch;            *)
(*   SpecOrg   repeated calls of get_active_organization on one session,   *)
(*             interleaved with changes of the underlying data;            *)
(*   SpecPure  the pure functions of Access and the has_permission         *)
(*             methods applied to inputs drawn from bounded sets.          *)
(***************************************************************************)
EXTENDS Integers, Sequences, FiniteSets, TLC

\* ---------------------------------------------------------------- bounds
\* Number of organization slugs that can appear in a path or a session.
NumOrgs == 2

\* Number of teams of an organization.
NumTeams == 2

\* Number of projects of an organization.
NumProjects == 1

\* ------------------------------------------------------------- constants
\* Python's None (absent slug, absent session key, unresolved entity,
\* null role tier).
None == -1

\* OrganizationMemberType: OWNER is the most privileged, smallest value.
OWNER == 0
ADMIN == 25
MEMBER == 50

Tiers == {OWNER, ADMIN, MEMBER}

\* Organization slugs.  A slug is a non-empty string, so "organization_slug
\* is not None" (line 140) and "organization_slug" (line 159) agree on it.
\* An organization is identified by its slug (slugs are unique).
OrgSlugs == 1..NumOrgs

\* OrganizationStatus as seen by Organization.objects.get_from_cache(slug=..):
\* no such row, a row with status VISIBLE, a row with any other status.
OrgStatuses == {"ABSENT", "VISIBLE", "PENDING_DELETION"}

\* request.get_full_path(), and the value standing for "no '_next' key".
FullPath == "/requested/path"
NoPath == "<absent>"

VARIABLES
    orgStatus,   \* Organization store: slug -> status
    orgList,     \* Organization.objects.get_for_user(user, access): ordered
    session,     \* request.session: keys 'activeorg' and '_next'
    user,        \* request.user: "anon", "user" or "super"
    pc,          \* position of the request in BaseView.dispatch
    req,         \* the endpoint's class attributes and the path's kwargs
    kwargs,      \* organization / team / project injected by convert_args
    access,      \* request.access
    rows,        \* store rows read for this request (team, project,
                 \* membership, AuthIdentity)
    response,    \* the terminal response and the messages enqueued
    trace,       \* stages run and store calls made for this request
    sessOps,     \* writes and deletes made on the session for this request
    call,        \* SpecOrg: the two most recent get_active_organization calls
    pure         \* SpecPure: inputs and results of the pure functions

vars == <<orgStatus, orgList, session, user, pc, req, kwargs, access, rows,
          response, trace, sessOps, call, pure>>

\* ------------------------------------------------------------- helpers
Range(s) == {s[i] : i \in DOMAIN s}

\* Ordered sequences without repetition over a set.
RECURSIVE InjSeqs(_)
InjSeqs(S) ==
    IF S = {} THEN {<<>>}
    ELSE {<<>>} \cup UNION {{<<x>> \o t : t \in InjSeqs(S \ {x})} : x \in S}

\* request.session.get(key)
SessionGet(sess, key) == sess[key]

\* One entry of the log of session mutations: a slug written under
\* 'activeorg', a path written under '_next', a key deleted.
SetOp(key, value) ==
    [op |-> "set", key |-> key, value |-> value, path |-> NoPath]
SetPathOp(key, path) ==
    [op |-> "set", key |-> key, value |-> None, path |-> path]
DelOp(key) == [op |-> "del", key |-> key, value |-> None, path |-> NoPath]

\* The data the organization store can hold: the list returned by
\* get_for_user holds each organization at most once and only VISIBLE ones.
Worlds ==
    {w \in [status : [OrgSlugs -> OrgStatuses], list : InjSeqs(OrgSlugs)] :
        \A o \in Range(w.list) : w.status[o] = "VISIBLE"}

Sessions == [activeorg : OrgSlugs \cup {None}, next : {NoPath, FullPath}]

Users == {"anon", "user", "super"}

is_superuser(u) == u = "super"
is_authenticated(u) == u # "anon"

\* Organization.objects.get_from_cache(slug=slug) followed by the status
\* check of lines 146-147: the organization, or None for DoesNotExist.
get_from_cache(status, slug) ==
    IF slug \in DOMAIN status /\ status[slug] = "VISIBLE" THEN slug ELSE None

\* Organization.objects.get_for_user(user=..., access=...)
get_for_user(list) == list

\* ---------------------------------------- OrganizationMixin (lines 127-185)
\* The slug taken as found without a look at the list.
FirstMatch_trusting(organizations, slug) == slug

\* (o for o in organizations if o.slug == organization_slug).next();
\* None stands for StopIteration.
FirstMatch(organizations, slug) ==
    IF \E i \in DOMAIN organizations : organizations[i] = slug
    THEN organizations[CHOOSE i \in DOMAIN organizations :
             /\ organizations[i] = slug
             /\ \A j \in DOMAIN organizations : organizations[j] = slug => i <= j]
    ELSE None

\* The deletion made for an explicit slug as well.
clears_session_any(search, match, is_implicit) ==
    search /\ match = None

\* Lines 165-169: the search raised StopIteration; the session key is
\* deleted only for a slug that was read from the session.
clears_session(search, match, is_implicit) ==
    search /\ match = None /\ is_implicit

\* Lines 176-180: organizations[0], or None for IndexError.
first_organization(organizations) ==
    IF Len(organizations) > 0 THEN organizations[1] ELSE None

\* The write made whenever an organization resolved, equal slug or not.
writes_session_always(active_organization, stored) ==
    active_organization # None

\* Line 182: the condition of the write to session['activeorg'].
writes_session(active_organization, stored) ==
    active_organization # None /\ active_organization # stored

\* The list fetched only when no slug is at hand, path's or session's.
fetches_organizations_without_slug(active_organization, organization_slug) ==
    active_organization = None /\ organization_slug = None

\* Line 153: Organization.objects.get_for_user is called whenever the
\* direct lookup did not resolve the organization (it is made for a
\* superuser only), whatever organization_slug is.
fetches_organizations(active_organization, organization_slug) ==
    active_organization = None

\* The first accessible organization taken for an explicit slug as well.
returns_none_never(active_organization, is_implicit) ==
    FALSE

\* Lines 172-174: nothing resolved for an explicit slug: return None.
returns_none(active_organization, is_implicit) ==
    active_organization = None /\ ~is_implicit

\* Result of get_active_organization: the organization returned, the value
\* of session['activeorg'] afterwards, the session mutations in order, the
\* store calls in order, and the exception that left the function, if any.
OrgResult(org, activeorg, ops, calls) ==
    [org |-> org, activeorg |-> activeorg, ops |-> ops, calls |-> calls,
     fault |-> "none"]

\* An exception leaves get_active_organization: nothing is returned and the
\* session is as it was (every raising statement precedes the first
\* mutation).
OrgFault(fault, activeorg, calls) ==
    [org |-> None, activeorg |-> activeorg, ops |-> <<>>, calls |-> calls,
     fault |-> fault]

\* Reading `organizations` (lines 162, 177) before line 154 bound it.
reads_unbound(fetch, reads) == reads /\ ~fetch

\* `del request.session['activeorg']` (line 169) on a session without the key.
deletes_absent(stale, stored) == stale /\ stored = None

get_active_organization(sess, organization_slug, u, status, list) ==
    LET is_implicit == organization_slug = None
        slug == IF is_implicit THEN SessionGet(sess, "activeorg")
                ELSE organization_slug
        direct == slug # None /\ is_superuser(u)
        cached == IF direct THEN get_from_cache(status, slug) ELSE None
    IN  IF direct /\ cached = None
        THEN \* lines 148-151: return None
             OrgResult(None, sess.activeorg, <<>>, <<"get_from_cache">>)
        ELSE
        LET calls1 == IF direct THEN <<"get_from_cache">> ELSE <<>>
            \* lines 153-157
            fetch == fetches_organizations(cached, slug)
            organizations == get_for_user(list)
            calls2 == IF fetch THEN calls1 \o <<"get_for_user">> ELSE calls1
            \* lines 159-170
            search == cached = None /\ slug # None
            match == IF search THEN FirstMatch(organizations, slug) ELSE cached
            stale == clears_session(search, match, is_implicit)
            ops1 == IF stale THEN <<DelOp("activeorg")>> ELSE <<>>
            stored1 == IF stale THEN None ELSE sess.activeorg
        IN  IF reads_unbound(fetch, search)
            THEN OrgFault("UnboundLocalError", sess.activeorg, calls2)
            ELSE IF deletes_absent(stale, sess.activeorg)
            THEN OrgFault("KeyError", sess.activeorg, calls2)
            ELSE IF returns_none(match, is_implicit)
            THEN \* lines 172-174
                 OrgResult(None, stored1, ops1, calls2)
            ELSE IF reads_unbound(fetch, match = None)
            THEN OrgFault("UnboundLocalError", sess.activeorg, calls2)
            ELSE
            LET \* lines 176-180
                active == IF match # None THEN match
                          ELSE first_organization(organizations)
                \* lines 182-183
                write == writes_session(active, stored1)
            IN  OrgResult(active,
                          IF write THEN active ELSE stored1,
                          IF write THEN ops1 \o <<SetOp("activeorg", active)>>
                          ELSE ops1,
                          calls2)

\* ------------------------------------------------- Access (lines 25-120)
Teams == 1..NumTeams

\* class NoAccess (lines 25-33).  It has no _type and no _teams; the two
\* fields are carried so that every grant is a record of one shape.
NoAccess ==
    [kind |-> "NoAccess", type |-> None, is_global |-> FALSE,
     is_sso_valid |-> FALSE, teams |-> {}]

\* Access.__init__(type, is_global=False, is_sso_valid=False, teams=())
Access(type, is_global, is_sso_valid, teams) ==
    [kind |-> "Access", type |-> type, is_global |-> is_global,
     is_sso_valid |-> is_sso_valid, teams |-> teams]

\* has_access with the "is None" test left out: None <= type.
has_access_unguarded(grant, type) ==
    IF grant.kind = "NoAccess" THEN FALSE ELSE grant.type <= type

\* has_access with the comparison turned round: type <= self._type.
has_access_reversed(grant, type) ==
    IF grant.kind = "NoAccess" THEN FALSE
    ELSE IF grant.type = None THEN FALSE
    ELSE type <= grant.type

\* Access.has_access (lines 46-49) and NoAccess.has_access (lines 29-30)
has_access(grant, type) ==
    IF grant.kind = "NoAccess" THEN FALSE
    ELSE IF grant.type = None THEN FALSE
    ELSE grant.type <= type

\* has_team_access without the is_global test: only the explicit team set.
has_team_access_teams_only(grant, team) ==
    IF grant.kind = "NoAccess" THEN FALSE
    ELSE IF grant.type = None THEN FALSE
    ELSE team \in grant.teams

\* Access.has_team_access (lines 51-56), NoAccess.has_team_access (32-33)
has_team_access(grant, team) ==
    IF grant.kind = "NoAccess" THEN FALSE
    ELSE IF grant.type = None THEN FALSE
    ELSE IF grant.is_global THEN TRUE
    ELSE team \in grant.teams

\* Access.is_admin (lines 58-62); NoAccess defines no such attribute.
is_admin(grant) ==
    IF grant.type = None THEN FALSE ELSE has_access(grant, ADMIN)

\* Access.is_owner (lines 68-72); NoAccess defines no such attribute.
is_owner(grant) ==
    IF grant.type = None THEN FALSE ELSE has_access(grant, OWNER)

\* An OrganizationMember row, and the value for OrganizationMember.DoesNotExist.
Members == [type : Tiers, has_global_access : BOOLEAN, teams : SUBSET Teams]
NoMember == [type |-> None, has_global_access |-> FALSE, teams |-> {}]

\* AuthIdentity.objects.get(auth_provider__organization=...): DoesNotExist,
\* or a row whose is_valid(member) is true or false.
AuthIdentities == {"DoesNotExist", "valid", "invalid"}

\* Access.from_member (lines 99-120)
from_member(member, auth_identity) ==
    LET teams == IF member.has_global_access THEN {} ELSE member.teams
        is_sso_valid == IF auth_identity = "DoesNotExist" THEN TRUE
                        ELSE auth_identity = "valid"
    IN  Access(member.type, member.has_global_access, is_sso_valid, teams)

\* from_user with the organization test placed before the superuser test.
from_user_org_first(u, organization, member, auth_identity) ==
    IF organization = None THEN NoAccess
    ELSE IF is_superuser(u) THEN Access(OWNER, TRUE, TRUE, {})
    ELSE IF member = NoMember THEN Access(None, FALSE, FALSE, {})
    ELSE from_member(member, auth_identity)

\* Access.from_user (lines 78-97).  member is the row of
\* OrganizationMember.objects.get(user=user, organization=organization).
from_user(u, organization, member, auth_identity) ==
    IF is_superuser(u) THEN Access(OWNER, TRUE, TRUE, {})
    ELSE IF organization = None THEN NoAccess
    ELSE IF member = NoMember THEN Access(None, FALSE, FALSE, {})
    ELSE from_member(member, auth_identity)

\* ------------------------------------------------ has_permission methods
Views == {"BaseView", "OrganizationView", "TeamView", "ProjectView"}

Projects == 1..NumProjects

\* BaseView.has_permission (lines 272-273)
BaseView_has_permission == TRUE

\* The organization-level check without the SSO test.
OrganizationView_has_permission_no_sso(valid_sso_required, grant, organization) ==
    organization # None

\* OrganizationView.has_permission (lines 325-330)
OrganizationView_has_permission(valid_sso_required, grant, organization) ==
    IF organization = None THEN FALSE
    ELSE IF valid_sso_required /\ ~grant.is_sso_valid THEN FALSE
    ELSE TRUE

\* TeamView.has_permission (lines 376-380)
TeamView_has_permission(valid_sso_required, grant, organization, team) ==
    LET rv == OrganizationView_has_permission(valid_sso_required, grant,
                                              organization)
    IN  IF ~rv THEN rv ELSE team # None

\* The project-level check made on top of the organization-level one.
ProjectView_has_permission_skipping_team(valid_sso_required, grant, organization, team, project) ==
    LET rv == OrganizationView_has_permission(valid_sso_required, grant,
                                              organization)
    IN  IF ~rv THEN rv ELSE project # None

\* ProjectView.has_permission (lines 420-424): super is TeamView.
ProjectView_has_permission(valid_sso_required, grant, organization, team, project) ==
    LET rv == TeamView_has_permission(valid_sso_required, grant, organization,
                                      team)
    IN  IF ~rv THEN rv ELSE project # None

\* self.has_permission(request, *args, **kwargs) of line 237, by class.
has_permission(view, valid_sso_required, grant, organization, team, project) ==
    CASE view = "BaseView" -> BaseView_has_permission
      [] view = "OrganizationView" ->
            OrganizationView_has_permission(valid_sso_required, grant,
                                            organization)
      [] view = "TeamView" ->
            TeamView_has_permission(valid_sso_required, grant, organization,
                                    team)
      [] view = "ProjectView" ->
            ProjectView_has_permission(valid_sso_required, grant, organization,
                                       team, project)

\* ---------------------------------------------------------------- SpecOrg
Idle == [state |-> "idle"]

NoCall == [arg |-> None, implicit |-> None, before |-> None, org |-> None,
           after |-> None, ops |-> <<>>, calls |-> <<>>, fault |-> "none"]

\* No call made yet on the present data.
NoCalls == [n |-> 0, prev |-> NoCall, last |-> NoCall]

\* The variables of the dispatch pipeline and of the pure functions, at rest.
PipelineIdle ==
    /\ pc = "idle"
    /\ req = Idle
    /\ kwargs = Idle
    /\ access = Idle
    /\ rows = Idle
    /\ response = Idle
    /\ trace = <<>>
    /\ sessOps = <<>>

InitOrg ==
    /\ \E w \in Worlds : orgStatus = w.status /\ orgList = w.list
    /\ session \in Sessions
    /\ session.next = NoPath
    /\ user \in Users
    /\ PipelineIdle
    /\ call = NoCalls
    /\ pure = Idle

\* One call of get_active_organization(request, organization_slug).
CallGetActiveOrganization ==
    \E slug \in OrgSlugs \cup {None} :
        LET r == get_active_organization(session, slug, user, orgStatus, orgList)
        IN  /\ session' = [session EXCEPT !.activeorg = r.activeorg]
            /\ call' = [n |-> IF call.n < 2 THEN call.n + 1 ELSE 2,
                        prev |-> call.last,
                        last |-> [arg |-> slug,
                                  implicit |-> IF slug = None
                                               THEN session.activeorg ELSE None,
                                  before |-> session.activeorg,
                                  org |-> r.org, after |-> r.activeorg,
                                  ops |-> r.ops, calls |-> r.calls,
                                  fault |-> r.fault]]
            /\ UNCHANGED <<orgStatus, orgList, user, pc, req, kwargs, access,
                           rows, response, trace, sessOps, pure>>

\* The underlying data changes between two calls: organizations are created,
\* hidden or deleted, memberships change.  The record of the calls made on
\* the old data is dropped.
ChangeData ==
    /\ call.n > 0
    /\ \E w \in Worlds :
        /\ <<w.status, w.list>> # <<orgStatus, orgList>>
        /\ orgStatus' = w.status
        /\ orgList' = w.list
    /\ call' = NoCalls
    /\ UNCHANGED <<session, user, pc, req, kwargs, access, rows, response,
                   trace, sessOps, pure>>

\* The identity behind the session changes between two calls (login, logout,
\* promotion to superuser).  The record of the earlier calls is dropped.
ChangeUser ==
    /\ call.n > 0
    /\ \E u \in Users : u # user /\ user' = u
    /\ call' = NoCalls
    /\ UNCHANGED <<orgStatus, orgList, session, pc, req, kwargs, access, rows,
                   response, trace, sessOps, pure>>

NextOrg == CallGetActiveOrganization \/ ChangeData \/ ChangeUser

SpecOrg == InitOrg /\ [][NextOrg]_vars

\* --------------------------------------------------------------- SpecPure
\* Every grant an Access object or NoAccess can be.
Grants ==
    {NoAccess} \cup
    {Access(t, g, v, ts) : t \in Tiers \cup {None}, g \in BOOLEAN,
                           v \in BOOLEAN, ts \in SUBSET Teams}

\* The arguments of one application: of Access.from_user, of
\* Access.from_member, of the queries of a grant, of has_permission.
PureInputs ==
    [op : {"from_user"}, user : Users, organization : OrgSlugs \cup {None},
     member : Members \cup {NoMember}, auth_identity : AuthIdentities,
     done : {FALSE}, out : {Idle}]
    \cup
    [op : {"from_member"}, organization : OrgSlugs, member : Members,
     auth_identity : AuthIdentities, done : {FALSE}, out : {Idle}]
    \cup
    [op : {"queries"}, grant : Grants, type : Tiers, team : Teams,
     done : {FALSE}, out : {Idle}]
    \cup
    [op : {"has_permission"}, view : Views, valid_sso_required : BOOLEAN,
     grant : Grants, organization : OrgSlugs \cup {None},
     team : Teams \cup {None}, project : Projects \cup {None},
     done : {FALSE}, out : {Idle}]

InitPure ==
    /\ orgStatus = [o \in OrgSlugs |-> "ABSENT"]
    /\ orgList = <<>>
    /\ session = [activeorg |-> None, next |-> NoPath]
    /\ user = "anon"
    /\ PipelineIdle
    /\ call = NoCalls
    /\ pure \in PureInputs

PureFrame ==
    UNCHANGED <<orgStatus, orgList, session, user, pc, req, kwargs, access,
                rows, response, trace, sessOps, call>>

Pending(name) == pure.op = name /\ ~pure.done

\* Access.from_user(user, organization)
ApplyFromUser ==
    /\ Pending("from_user")
    /\ pure' = [pure EXCEPT !.done = TRUE,
                             !.out = from_user(pure.user, pure.organization,
                                               pure.member, pure.auth_identity)]
    /\ PureFrame

\* Access.from_member(member)
ApplyFromMember ==
    /\ Pending("from_member")
    /\ pure' = [pure EXCEPT !.done = TRUE,
                             !.out = from_member(pure.member,
                                                 pure.auth_identity)]
    /\ PureFrame

\* The queries of a grant: has_access, has_team_access and, on an Access
\* object, the is_admin and is_owner properties (NoAccess has neither).
ApplyQueries ==
    /\ Pending("queries")
    /\ pure' = [pure EXCEPT
          !.done = TRUE,
          !.out = [has_access |-> has_access(pure.grant, pure.type),
                   has_team_access |-> has_team_access(pure.grant, pure.team),
                   is_admin |-> IF pure.grant.kind = "Access"
                                THEN is_admin(pure.grant) ELSE FALSE,
                   is_owner |-> IF pure.grant.kind = "Access"
                                THEN is_owner(pure.grant) ELSE FALSE]]
    /\ PureFrame

\* has_permission of the view class
ApplyHasPermission ==
    /\ Pending("has_permission")
    /\ pure' = [pure EXCEPT
          !.done = TRUE,
          !.out = has_permission(pure.view, pure.valid_sso_required,
                                 pure.grant, pure.organization, pure.team,
                                 pure.project)]
    /\ PureFrame

NextPure ==
    ApplyFromUser \/ ApplyFromMember \/ ApplyQueries \/ ApplyHasPermission

SpecPure == InitPure /\ [][NextPure]_vars

\* ------------------------------------- scope resolvers (lines 187-217)
\* What Team.objects.get_from_cache / Project.objects.get_from_cache find
\* for the path's slug in the resolved organization, with the answer of the
\* row's has_access(request.user, access); "unread" when no lookup is made.
EntityRows == {"DoesNotExist", "no_access", "has_access"}

\* get_active_team without the existence test: the slug is taken as found.
get_active_team_unchecked(u, row, team_slug) ==
    IF ~is_superuser(u) /\ row = "no_access" THEN None ELSE team_slug

\* OrganizationMixin.get_active_team (lines 187-203)
get_active_team(u, row, team_slug) ==
    IF row = "DoesNotExist" THEN None
    ELSE IF ~is_superuser(u) /\ row # "has_access" THEN None
    ELSE team_slug

\* OrganizationMixin.get_active_project (lines 205-217)
get_active_project(u, row, project_slug) ==
    IF row = "DoesNotExist" THEN None
    ELSE IF ~is_superuser(u) /\ row # "has_access" THEN None
    ELSE project_slug

\* ------------------------------------------- BaseView.dispatch (225-243)
\* is_auth_required without the class attribute: every endpoint asks for an
\* authenticated identity.
is_auth_required_ignoring_flag(auth_required, u) == ~is_authenticated(u)

\* BaseView.is_auth_required (lines 254-255)
is_auth_required(auth_required, u) == auth_required /\ ~is_authenticated(u)

\* BaseView.is_sudo_required (lines 266-267)
is_sudo_required(sudo_required, is_sudo) == sudo_required /\ ~is_sudo

\* needs_link without the test of the identity.
needs_link_any_user(organization, u, valid_sso_required, grant) ==
    /\ organization # None
    /\ valid_sso_required
    /\ ~grant.is_sso_valid

\* OrganizationView.handle_permission_required, needs_link (lines 333-336)
needs_link(organization, u, valid_sso_required, grant) ==
    /\ organization # None
    /\ is_authenticated(u)
    /\ valid_sso_required
    /\ ~grant.is_sso_valid

\* A dispatch in which a stage that answered with a redirect does not
\* return: the following stage runs all the same.
dispatch_falls_through(stage, stop) ==
    CASE stage = "auth" -> "sudo"
      [] stage = "sudo" -> "convert_args"
      [] stage = "convert_args" -> "get_access"
      [] stage = "get_access" -> "has_permission"
      [] stage = "has_permission" -> "handle"
      [] stage = "handle" -> "done"

\* The control flow of dispatch (lines 227-243): the stage that follows
\* `stage`; stop says that the stage returned a response.
dispatch_next(stage, stop) ==
    IF stop THEN "done"
    ELSE CASE stage = "auth" -> "sudo"
           [] stage = "sudo" -> "convert_args"
           [] stage = "convert_args" -> "get_access"
           [] stage = "get_access" -> "has_permission"
           [] stage = "has_permission" -> "handle"
           [] stage = "handle" -> "done"

NoResponse == [kind |-> "none", organization |-> None, messages |-> 0]
Response(kind, organization, messages) ==
    [kind |-> kind, organization |-> organization, messages |-> messages]

\* An exception raised inside dispatch leaves it: no stage answers, the
\* framework reports a server error.
Unhandled(fault) ==
    [kind |-> "unhandled_fault", organization |-> None, messages |-> 0]

NoKwargs == [organization |-> None, team |-> None, project |-> None]

NoRows == [organization |-> None,
           team |-> "unread", project |-> "unread", project_team |-> None,
           member_read |-> FALSE, member |-> NoMember,
           auth_identity |-> "unread"]

\* The endpoints: class, class attributes, and the kwargs of the URL.
\* BaseView takes any kwargs; OrganizationView takes organization_slug=None;
\* TeamView and ProjectView require organization_slug and their own slug.
\* is_sudo (request.is_sudo()) is read only when sudo_required is set.
\* The path names one team or one project; the row the store holds for that
\* slug is drawn at the lookup, so one slug of each kind is enough here.
PathTeam == CHOOSE t \in Teams : \A other \in Teams : t <= other
PathProject == CHOOSE p \in Projects : \A other \in Projects : p <= other

Requests ==
    {r \in [view : Views, auth_required : BOOLEAN, sudo_required : BOOLEAN,
             is_sudo : BOOLEAN, valid_sso_required : BOOLEAN,
             organization_slug : OrgSlugs \cup {None},
             team_slug : {PathTeam, None},
             project_slug : {PathProject, None},
             activeorg : OrgSlugs \cup {None}] :
        /\ r.is_sudo => r.sudo_required
        /\ r.view = "BaseView" => ~r.valid_sso_required
        /\ r.view \in {"TeamView", "ProjectView"} => r.organization_slug # None
        /\ (r.team_slug # None) <=> (r.view = "TeamView")
        /\ (r.project_slug # None) <=> (r.view = "ProjectView")}

\* The organization stores drawn for the requests.  get_from_cache answers
\* DoesNotExist alike for a missing row and for a row that is not VISIBLE
\* (SpecOrg draws both); here every organization that is not VISIBLE is
\* missing.
RequestWorlds ==
    {w \in Worlds : \A o \in OrgSlugs : w.status[o] # "PENDING_DELETION"}

Init ==
    /\ \E w \in RequestWorlds : orgStatus = w.status /\ orgList = w.list
    /\ session \in Sessions
    /\ user = "anon"
    /\ PipelineIdle
    /\ call = NoCalls
    /\ pure = Idle

Frame == UNCHANGED <<orgStatus, orgList, call, pure>>

\* A request arrives for an endpoint: URL resolution has produced the view
\* and its kwargs, the session middleware the session and the identity.
\* req.activeorg keeps the value session['activeorg'] had on arrival.
Receive ==
    /\ pc = "idle"
    /\ \E r \in Requests :
          /\ r.activeorg = session.activeorg
          /\ req' = r
    /\ user' \in Users
    /\ pc' = "auth"
    /\ kwargs' = NoKwargs
    /\ access' = NoAccess
    /\ rows' = NoRows
    /\ response' = NoResponse
    /\ trace' = <<>>
    /\ sessOps' = <<>>
    /\ UNCHANGED session
    /\ Frame

\* Lines 227-228 and handle_auth_required (lines 257-264).
AuthStage ==
    /\ pc = "auth"
    /\ LET stop == is_auth_required(req.auth_required, user)
       IN  /\ pc' = dispatch_next("auth", stop)
           /\ IF stop
              THEN /\ session' = [session EXCEPT !.next = FullPath]
                   /\ sessOps' = sessOps \o <<SetPathOp("_next", FullPath)>>
                   /\ response' =
                        IF req.organization_slug # None
                        THEN Response("sso_login_redirect",
                                      req.organization_slug, 0)
                        ELSE Response("login_redirect", None, 0)
                   /\ trace' = trace \o <<"is_auth_required",
                                           "handle_auth_required">>
              ELSE /\ trace' = trace \o <<"is_auth_required">>
                   /\ UNCHANGED <<session, sessOps, response>>
    /\ UNCHANGED <<user, req, kwargs, access, rows>>
    /\ Frame

\* Lines 230-231 and handle_sudo_required (lines 269-270).
SudoStage ==
    /\ pc = "sudo"
    /\ LET stop == is_sudo_required(req.sudo_required, req.is_sudo)
       IN  /\ pc' = dispatch_next("sudo", stop)
           /\ IF stop
              THEN /\ response' = Response("sudo_redirect", None, 0)
                   /\ trace' = trace \o <<"is_sudo_required",
                                           "handle_sudo_required">>
              ELSE /\ trace' = trace \o <<"is_sudo_required">>
                   /\ UNCHANGED response
    /\ UNCHANGED <<session, user, req, kwargs, access, rows, sessOps>>
    /\ Frame

\* Line 233: BaseView.convert_args (lines 248-249) injects nothing.
ConvertArgsBase ==
    /\ pc = "convert_args"
    /\ req.view = "BaseView"
    /\ pc' = dispatch_next("convert_args", FALSE)
    /\ trace' = trace \o <<"convert_args">>
    /\ UNCHANGED <<session, user, req, kwargs, access, rows, response, sessOps>>
    /\ Frame

\* Line 233: OrganizationView.convert_args (lines 349-358).
ConvertArgsOrganization ==
    /\ pc = "convert_args"
    /\ req.view = "OrganizationView"
    /\ LET r == get_active_organization(session, req.organization_slug, user,
                                        orgStatus, orgList)
       IN  /\ session' = [session EXCEPT !.activeorg = r.activeorg]
           /\ sessOps' = sessOps \o r.ops
           /\ trace' = trace \o <<"convert_args">> \o r.calls
           /\ kwargs' = [NoKwargs EXCEPT !.organization = r.org]
           /\ pc' = dispatch_next("convert_args", r.fault # "none")
           /\ response' = IF r.fault # "none" THEN Unhandled(r.fault)
                          ELSE response
    /\ UNCHANGED <<user, req, access, rows>>
    /\ Frame

\* Line 233: TeamView.convert_args (lines 382-401).
ConvertArgsTeam ==
    /\ pc = "convert_args"
    /\ req.view = "TeamView"
    /\ LET r == get_active_organization(session, req.organization_slug, user,
                                        orgStatus, orgList)
       IN  /\ session' = [session EXCEPT !.activeorg = r.activeorg]
           /\ sessOps' = sessOps \o r.ops
           /\ pc' = dispatch_next("convert_args", r.fault # "none")
           /\ response' = IF r.fault # "none" THEN Unhandled(r.fault)
                          ELSE response
           /\ IF r.org # None
              THEN \E row \in EntityRows :
                     /\ rows' = [rows EXCEPT !.organization = r.org,
                                             !.team = row]
                     /\ kwargs' = [NoKwargs EXCEPT
                            !.organization = r.org,
                            !.team = get_active_team(user, row, req.team_slug)]
                     /\ trace' = trace \o <<"convert_args">> \o r.calls
                                       \o <<"Team.get_from_cache">>
              ELSE /\ kwargs' = NoKwargs
                   /\ trace' = trace \o <<"convert_args">> \o r.calls
                   /\ UNCHANGED rows
    /\ UNCHANGED <<user, req, access>>
    /\ Frame

\* Project.team: the owning team of a project row; every project has one.
ProjectTeams == Teams

\* The owning team placed in the scope whether the project resolved or not.
ProjectView_active_team_unconditional(active_project, project_team) ==
    project_team

\* ProjectView.convert_args, lines 442-445: the team of the scope.
ProjectView_active_team(active_project, project_team) ==
    IF active_project # None THEN project_team ELSE None

\* Line 233: ProjectView.convert_args (lines 426-451).  project_team is
\* the team attribute of the project row found; rows.organization is the
\* organization the lookup was made in.
ConvertArgsProject ==
    /\ pc = "convert_args"
    /\ req.view = "ProjectView"
    /\ LET r == get_active_organization(session, req.organization_slug, user,
                                        orgStatus, orgList)
       IN  /\ session' = [session EXCEPT !.activeorg = r.activeorg]
           /\ sessOps' = sessOps \o r.ops
           /\ pc' = dispatch_next("convert_args", r.fault # "none")
           /\ response' = IF r.fault # "none" THEN Unhandled(r.fault)
                          ELSE response
           /\ IF r.org # None
              THEN \E row \in EntityRows, project_team \in ProjectTeams :
                     LET active_project ==
                             get_active_project(user, row, req.project_slug)
                         active_team ==
                             ProjectView_active_team(active_project,
                                                     project_team)
                     IN  /\ rows' = [rows EXCEPT
                                !.organization = r.org,
                                !.project = row,
                                !.project_team =
                                    IF row = "DoesNotExist" THEN None
                                    ELSE project_team]
                         /\ kwargs' = [organization |-> r.org,
                                       team |-> active_team,
                                       project |-> active_project]
                         /\ trace' = trace \o <<"convert_args">> \o r.calls
                                           \o <<"Project.get_from_cache">>
              ELSE /\ kwargs' = NoKwargs
                   /\ trace' = trace \o <<"convert_args">> \o r.calls
                   /\ UNCHANGED rows
    /\ UNCHANGED <<user, req, access>>
    /\ Frame

\* The membership rows drawn for a request: none, or a membership.  No
\* stage of dispatch reads the grant's tier, is_global or team set, so the
\* one row drawn here is a global MEMBER; SpecPure applies from_user and
\* from_member to every membership.
RequestMembers ==
    {m \in Members : m.type = MEMBER /\ m.has_global_access /\ m.teams = {}}
    \cup {NoMember}

\* Line 235: BaseView.get_access (lines 245-246) returns NoAccess();
\* OrganizationView.get_access (lines 315-316) calls Access.from_user, which
\* reads the membership only for a non-superuser with an organization, and
\* the AuthIdentity only when a membership exists.
GetAccess ==
    /\ pc = "get_access"
    /\ IF req.view = "BaseView"
       THEN /\ access' = NoAccess
            /\ trace' = trace \o <<"get_access">>
            /\ UNCHANGED rows
       ELSE IF is_superuser(user) \/ kwargs.organization = None
       THEN /\ access' = from_user(user, kwargs.organization, NoMember,
                                    "DoesNotExist")
            /\ trace' = trace \o <<"get_access">>
            /\ UNCHANGED rows
       ELSE \E member \in RequestMembers, auth_identity \in AuthIdentities :
              /\ member = NoMember => auth_identity = "DoesNotExist"
              /\ access' = from_user(user, kwargs.organization, member,
                                      auth_identity)
              /\ rows' = [rows EXCEPT
                     !.member_read = TRUE,
                     !.member = member,
                     !.auth_identity = IF member = NoMember THEN "unread"
                                       ELSE auth_identity]
              /\ trace' = trace \o
                     (IF member = NoMember
                      THEN <<"get_access", "OrganizationMember.get">>
                      ELSE <<"get_access", "OrganizationMember.get",
                             "AuthIdentity.get">>)
    /\ pc' = dispatch_next("get_access", FALSE)
    /\ UNCHANGED <<session, user, req, kwargs, response, sessOps>>
    /\ Frame

\* Lines 237-238 and handle_permission_required (BaseView lines 275-277,
\* OrganizationView lines 332-347).
PermissionStage ==
    /\ pc = "has_permission"
    /\ LET ok == has_permission(req.view, req.valid_sso_required, access,
                                kwargs.organization, kwargs.team,
                                kwargs.project)
       IN  /\ pc' = dispatch_next("has_permission", ~ok)
           /\ IF ok
              THEN /\ trace' = trace \o <<"has_permission">>
                   /\ UNCHANGED response
              ELSE /\ trace' = trace \o <<"has_permission",
                                           "handle_permission_required">>
                   /\ response' =
                        IF /\ req.view # "BaseView"
                           /\ needs_link(kwargs.organization, user,
                                         req.valid_sso_required, access)
                        THEN Response("sso_link_redirect",
                                      kwargs.organization, 1)
                        ELSE Response("no_permission_redirect", None, 0)
    /\ UNCHANGED <<session, user, req, kwargs, access, rows, sessOps>>
    /\ Frame

\* Lines 240-243: get_context_data and the handler.
Handle ==
    /\ pc = "handle"
    /\ pc' = dispatch_next("handle", TRUE)
    /\ trace' = trace \o <<"get_context_data", "handle">>
    /\ response' = Response("handler", None, 0)
    /\ UNCHANGED <<session, user, req, kwargs, access, rows, sessOps>>
    /\ Frame

\* The response is returned; the session is kept for the next request, whose
\* identity is set again on arrival.
Finish ==
    /\ pc = "done"
    /\ pc' = "idle"
    /\ req' = Idle
    /\ kwargs' = Idle
    /\ access' = Idle
    /\ rows' = Idle
    /\ response' = Idle
    /\ trace' = <<>>
    /\ sessOps' = <<>>
    /\ user' = "anon"
    /\ UNCHANGED session
    /\ Frame

Next ==
    \/ Receive
    \/ AuthStage
    \/ SudoStage
    \/ ConvertArgsBase
    \/ ConvertArgsOrganization
    \/ ConvertArgsTeam
    \/ ConvertArgsProject
    \/ GetAccess
    \/ PermissionStage
    \/ Handle
    \/ Finish

Spec == Init /\ [][Next]_vars

\* dispatch is one synchronous call: once a request has been received, the
\* statement at which it stands is executed.
Stages ==
    \/ AuthStage
    \/ SudoStage
    \/ ConvertArgsBase
    \/ ConvertArgsOrganization
    \/ ConvertArgsTeam
    \/ ConvertArgsProject
    \/ GetAccess
    \/ PermissionStage
    \/ Handle

\* One request from its arrival to its response.  '_next' is written by the
\* auth stage and read by no stage, so the request starts without it.
InitLive == Init /\ session.next = NoPath

NextLive == Receive \/ Stages

SpecLive == InitLive /\ [][NextLive]_vars /\ WF_vars(Stages)

\* ------------------------------------------- claims on get_active_organization
\* The session mutations of the most recent call.
LastSets == {i \in DOMAIN call.last.ops : call.last.ops[i].op = "set"}
LastDels == {i \in DOMAIN call.last.ops : call.last.ops[i].op = "del"}

\* The slug the most recent call looked for: the path's, else the session's.
LastSlug == IF call.last.arg = None THEN call.last.before ELSE call.last.arg

\* The most recent call searched the accessible list for its slug and the
\* slug was not in it.
LastSearchFailed ==
    /\ \E i \in DOMAIN call.last.calls : call.last.calls[i] = "get_for_user"
    /\ LastSlug # None
    /\ LastSlug \notin Range(orgList)

\* C5: get_active_organization writes session['activeorg'] if and only if it
\* returns an organization whose slug differs from the stored one; the value
\* written is that slug; a call returning None writes nothing (it may only
\* delete); after a successful call the stored value is the returned slug.
C5_SessionWriteIffResolvedAndDiffers ==
    call.n > 0 =>
        /\ (LastSets # {}) <=>
               (call.last.org # None /\ call.last.org # call.last.before)
        /\ \A i \in LastSets :
               /\ call.last.ops[i].value = call.last.org
               /\ i = Len(call.last.ops)
        /\ Cardinality(LastSets) <= 1
        /\ call.last.org = None =>
               /\ LastSets = {}
               /\ call.last.after \in {call.last.before, None}
        /\ call.last.org # None => call.last.after = call.last.org
        /\ session.activeorg = call.last.after

\* C5 witness: a stale session slug was dropped and the first accessible
\* organization was written in its place.
C5_Witness ==
    /\ call.n > 0
    /\ call.last.arg = None
    /\ call.last.before # None
    /\ call.last.org # None
    /\ call.last.org # call.last.before
    /\ LastDels # {}
    /\ LastSets # {}
    /\ session.activeorg = call.last.org

C7_ClearOnlyImplicit ==
    call.n > 0 =>
        /\ (LastDels # {}) <=> (LastSearchFailed /\ call.last.arg = None)
        /\ (LastSearchFailed /\ call.last.arg # None) =>
               /\ call.last.ops = <<>>
               /\ call.last.after = call.last.before
               /\ call.last.org = None

\* C7 witness: an explicit slug was not found while the session held a slug.
C7_Witness ==
    /\ call.n > 0
    /\ call.last.arg # None
    /\ LastSearchFailed
    /\ call.last.before # None
    /\ session.activeorg = call.last.before
    /\ call.last.org = None

\* C7 second case reached: an implicit slug was not found and was deleted.
C7_WitnessImplicit ==
    /\ call.n > 0
    /\ call.last.arg = None
    /\ LastSearchFailed
    /\ LastDels # {}

\* ------------------------------------------------ claims on dispatch
InFlight == pc # "idle"

Ran(event) == \E i \in DOMAIN trace : trace[i] = event

\* The stages of dispatch in the order of lines 227-243, and the handler
\* that answers when stage k stops the request.
StageOrder ==
    <<"is_auth_required", "is_sudo_required", "convert_args", "get_access",
      "has_permission", "handle">>
StopHandler ==
    <<"handle_auth_required", "handle_sudo_required", "none", "none",
      "handle_permission_required", "none">>

IsStageEvent(e) ==
    \/ \E k \in DOMAIN StageOrder : e = StageOrder[k]
    \/ e \in {"handle_auth_required", "handle_sudo_required",
               "handle_permission_required"}

StagesRun == SelectSeq(trace, IsStageEvent)

\* Calls that resolve the scope.
ScopeCalls ==
    {"convert_args", "get_from_cache", "get_for_user", "Team.get_from_cache",
     "Project.get_from_cache"}

\* The permission of the request in its present state.
Permitted ==
    has_permission(req.view, req.valid_sso_required, access,
                   kwargs.organization, kwargs.team, kwargs.project)

\* The organization-level permission of the request in its present state.
OrgLevel ==
    /\ kwargs.organization # None
    /\ (~req.valid_sso_required \/ access.is_sso_valid)

PastConvert == InFlight /\ Ran("convert_args")
PastPermission == InFlight /\ Ran("has_permission")
Denied ==
    /\ pc = "done"
    /\ response.kind \in {"no_permission_redirect", "sso_link_redirect"}
    /\ ~Ran("handle")
HandlerInvoked == InFlight /\ Ran("handle")

\* C1: the stages of dispatch run in the order auth, sudo, convert_args,
\* get_access, has_permission, handler, each only after every earlier one
\* passed; when the auth or the sudo stage answers, no scope resolution is
\* made and session['activeorg'] is as it was on arrival; the handler runs
\* only after has_permission returned true.
C1_StagesInOrder ==
    InFlight =>
        /\ LET run == StagesRun
               n == Len(run)
           IN  \/ /\ n <= Len(StageOrder)
                  /\ run = SubSeq(StageOrder, 1, n)
               \/ /\ n >= 2
                  /\ n - 1 <= Len(StageOrder)
                  /\ SubSeq(run, 1, n - 1) = SubSeq(StageOrder, 1, n - 1)
                  /\ StopHandler[n - 1] # "none"
                  /\ run[n] = StopHandler[n - 1]
                  /\ pc = "done"
        /\ Ran("is_sudo_required") =>
              ~is_auth_required(req.auth_required, user)
        /\ Ran("convert_args") =>
              /\ ~is_auth_required(req.auth_required, user)
              /\ ~is_sudo_required(req.sudo_required, req.is_sudo)
        /\ (Ran("handle_auth_required") \/ Ran("handle_sudo_required")) =>
              /\ \A c \in ScopeCalls : ~Ran(c)
              /\ \A i \in DOMAIN sessOps : sessOps[i].key # "activeorg"
              /\ session.activeorg = req.activeorg
              /\ kwargs = NoKwargs
        /\ (pc = "handle" \/ Ran("handle")) =>
              /\ Ran("has_permission")
              /\ ~Ran("handle_permission_required")
              /\ Permitted

\* C1 witness: the sudo stage answered a request whose path names an
\* accessible organization other than the one in the session.
C1_Witness ==
    /\ pc = "done"
    /\ response.kind = "sudo_redirect"
    /\ req.view = "OrganizationView"
    /\ req.organization_slug \in Range(orgList)
    /\ req.organization_slug # session.activeorg
    /\ session.activeorg = req.activeorg

\* C2: on an OrganizationView the permission check passes exactly when the
\* organization resolved and (valid_sso_required is false or the grant's
\* is_sso_valid is true); otherwise the request is denied and the handler is
\* never invoked.
C2_OrganizationPermission ==
    (InFlight /\ req.view = "OrganizationView") =>
        /\ PastPermission =>
              /\ OrgLevel => (~Ran("handle_permission_required")
                              /\ (pc = "handle" \/ response.kind = "handler"))
              /\ ~OrgLevel => Denied
        /\ (pc = "handle" \/ HandlerInvoked) => OrgLevel

\* C2 witness: the organization resolved, the endpoint requires valid SSO,
\* the member's AuthIdentity is not valid, and the request is denied.
C2_Witness ==
    /\ InFlight
    /\ req.view = "OrganizationView"
    /\ kwargs.organization # None
    /\ rows.auth_identity = "invalid"
    /\ Denied

\* C2 second case reached: the organization did not resolve for a superuser,
\* whose grant is SSO-valid, and the request is denied.
C2_WitnessNoOrganization ==
    /\ InFlight
    /\ req.view = "OrganizationView"
    /\ kwargs.organization = None
    /\ access.is_sso_valid
    /\ Denied

\* C4: on a TeamView the handler is invoked only if the organization-level
\* permission holds, a team with the path's slug exists in the resolved
\* organization and, for a non-superuser, its has_access grants the
\* required tier; a superuser skips the access check but not the existence
\* check; no team is looked up when the organization resolved to None.
C4_TeamPermission ==
    (InFlight /\ req.view = "TeamView") =>
        /\ (pc = "handle" \/ HandlerInvoked) =>
              /\ OrgLevel
              /\ rows.team \in {"no_access", "has_access"}
              /\ ~is_superuser(user) => rows.team = "has_access"
              /\ kwargs.team = req.team_slug
        /\ PastConvert =>
              /\ (is_superuser(user) /\ rows.team = "DoesNotExist") =>
                    kwargs.team = None
              /\ (is_superuser(user) /\ rows.team = "no_access") =>
                    kwargs.team = req.team_slug
              /\ (kwargs.organization = None) <=> (rows.team = "unread")
              /\ (kwargs.organization = None) <=> ~Ran("Team.get_from_cache")

\* C4 witness: a superuser reaches the handler for a team whose has_access
\* refuses the identity.
C4_Witness ==
    /\ InFlight
    /\ req.view = "TeamView"
    /\ is_superuser(user)
    /\ rows.team = "no_access"
    /\ response.kind = "handler"

\* C4 second case reached: a superuser is denied on a team that does not
\* exist in the resolved organization.
C4_WitnessMissingTeam ==
    /\ InFlight
    /\ req.view = "TeamView"
    /\ is_superuser(user)
    /\ kwargs.organization # None
    /\ rows.team = "DoesNotExist"
    /\ Denied

\* ------------------------------------------------ claims on Access
\* The named function has been applied.
IsOp(name) == pure.op = name /\ pure.done

\* The organization-level permission of the arguments last given to
\* has_permission.
PureOrgLevel ==
    OrganizationView_has_permission(pure.valid_sso_required, pure.grant,
                                    pure.organization)

\* C3 as stated: on a project-level endpoint has_permission holds exactly when
\* the organization-level permission holds and the project is not None,
\* whatever the team argument is.
C3_TeamArgumentIgnored ==
    (IsOp("has_permission") /\ pure.view = "ProjectView") =>
        (pure.out <=> (PureOrgLevel /\ pure.project # None))

\* C3 amended: on a project-level endpoint has_permission holds exactly when
\* the team-level permission holds (the organization-level permission and a
\* team that is not None) and the project is not None.
C3_ProjectNeedsTeamAndProject ==
    (IsOp("has_permission") /\ pure.view = "ProjectView") =>
        (pure.out <=>
            (PureOrgLevel /\ pure.team # None /\ pure.project # None))

\* C3 witness: the organization-level permission holds, the project is
\* resolved, the team is None, and has_permission answers false.
C3_Witness ==
    /\ IsOp("has_permission")
    /\ pure.view = "ProjectView"
    /\ PureOrgLevel
    /\ pure.project # None
    /\ pure.team = None
    /\ ~pure.out

\* C8: for a superuser Access.from_user returns role OWNER, is_global true,
\* is_sso_valid true, whatever the organization, the membership and the
\* AuthIdentity are; has_access is then true for every tier and
\* has_team_access for every team.
C8_SuperuserGrant ==
    (IsOp("from_user") /\ is_superuser(pure.user)) =>
        /\ pure.out.kind = "Access"
        /\ pure.out.type = OWNER
        /\ pure.out.is_global
        /\ pure.out.is_sso_valid
        /\ \A t \in Tiers : has_access(pure.out, t)
        /\ \A team \in Teams : has_team_access(pure.out, team)
        /\ is_admin(pure.out)
        /\ is_owner(pure.out)

\* C8 witness: a superuser with no organization in scope, no membership and
\* an AuthIdentity that is not valid.
C8_Witness ==
    /\ IsOp("from_user")
    /\ is_superuser(pure.user)
    /\ pure.organization = None
    /\ pure.member = NoMember
    /\ pure.auth_identity = "invalid"
    /\ pure.out.type = OWNER

\* C9 as stated: against an organization that has no AuthIdentity record the
\* grant built by from_user or from_member has is_sso_valid true.
C9_NoAuthIdentityIsSsoValid ==
    (/\ (IsOp("from_user") \/ IsOp("from_member"))
     /\ pure.organization # None
     /\ pure.auth_identity = "DoesNotExist") =>
        pure.out.is_sso_valid

C11_GlobalMemberTeamAccess ==
    IsOp("from_member") =>
        /\ pure.out.is_global = pure.member.has_global_access
        /\ pure.member.has_global_access =>
              /\ pure.out.teams = {}
              /\ \A team \in Teams : has_team_access(pure.out, team)
        /\ ~pure.member.has_global_access =>
              /\ pure.out.teams = pure.member.teams
              /\ \A team \in Teams :
                    has_team_access(pure.out, team) <=> team \in pure.member.teams

\* C11 witness: a global membership that lists one team and not another;
\* the grant's team set is empty and both teams are accessible.
C11_Witness ==
    /\ IsOp("from_member")
    /\ pure.member.has_global_access
    /\ pure.member.teams # {}
    /\ pure.member.teams # Teams
    /\ pure.out.teams = {}
    /\ \A team \in Teams : has_team_access(pure.out, team)

\* C11 second case reached: a membership without global access that lists
\* one team and not another.
C11_WitnessTeams ==
    /\ IsOp("from_member")
    /\ ~pure.member.has_global_access
    /\ \E t1, t2 \in Teams :
          /\ has_team_access(pure.out, t1)
          /\ ~has_team_access(pure.out, t2)

\* ------------------------------------ claims on handle_permission_required
\* The permission check of a scoped endpoint failed and was answered.
PermissionDenied ==
    /\ pc = "done"
    /\ req.view # "BaseView"
    /\ Ran("handle_permission_required")

\* The organization resolved, the user is authenticated, the endpoint
\* requires valid SSO and the grant's is_sso_valid is false.
SsoLinkCase ==
    /\ kwargs.organization # None
    /\ is_authenticated(user)
    /\ req.valid_sso_required
    /\ ~access.is_sso_valid

\* C12: when the permission check of an organization-, team- or
\* project-level endpoint fails, the response is the SSO-link redirect for
\* the resolved organization with one message enqueued exactly when the
\* organization resolved, the user is authenticated, the endpoint requires
\* valid SSO and is_sso_valid is false; every other denial is the generic
\* no-permission redirect with no message.
C12_SsoLinkOrNoPermission ==
    PermissionDenied =>
        /\ SsoLinkCase <=> (response.kind = "sso_link_redirect")
        /\ SsoLinkCase =>
              response = Response("sso_link_redirect", kwargs.organization, 1)
        /\ ~SsoLinkCase =>
              response = Response("no_permission_redirect", None, 0)

\* C12 witness: the member's AuthIdentity is not valid, the caller is
\* authenticated and the organization resolved: SSO-link redirect and one
\* message.
C12_Witness ==
    /\ PermissionDenied
    /\ rows.auth_identity = "invalid"
    /\ is_authenticated(user)
    /\ kwargs.organization # None
    /\ response = Response("sso_link_redirect", kwargs.organization, 1)

\* C12 second case reached: an anonymous caller of an endpoint that does
\* not require authentication fails the SSO test on a resolved organization
\* and gets the generic redirect.
C12_WitnessAnonymous ==
    /\ PermissionDenied
    /\ ~is_authenticated(user)
    /\ kwargs.organization # None
    /\ req.valid_sso_required
    /\ ~access.is_sso_valid
    /\ response = Response("no_permission_redirect", None, 0)

\* C12 third case reached: the SSO test passed and the team did not
\* resolve: generic redirect.
C12_WitnessMissingTeam ==
    /\ PermissionDenied
    /\ req.view = "TeamView"
    /\ is_authenticated(user)
    /\ kwargs.organization # None
    /\ req.valid_sso_required
    /\ access.is_sso_valid
    /\ kwargs.team = None
    /\ response.kind = "no_permission_redirect"

\* ------------------- claims on get_active_organization, second group
\* The most recent call fetched the accessible list.
LastFetched ==
    \E i \in DOMAIN call.last.calls : call.last.calls[i] = "get_for_user"

\* How many times the most recent call fetched the accessible list.
LastFetchCount ==
    Cardinality({i \in DOMAIN call.last.calls :
                    call.last.calls[i] = "get_for_user"})

\* The most recent call was made for a superuser with a slug at hand, and
\* the direct lookup of that slug failed.
LastDirectLookupFailed ==
    /\ call.n > 0
    /\ is_superuser(user)
    /\ LastSlug # None
    /\ get_from_cache(orgStatus, LastSlug) = None

\* C13 as stated: when the direct lookup made for a superuser fails, the
\* resolution falls through: the accessible list is fetched and searched, a
\* stale implicit slug is deleted from the session, and with an implicit
\* slug the first accessible organization is the result.
C13_SuperuserLookupFallsThrough ==
    LastDirectLookupFailed =>
        /\ LastFetched
        /\ call.last.arg = None =>
              /\ LastSlug \notin Range(orgList) => LastDels # {}
              /\ LastSlug \notin Range(orgList) =>
                    call.last.org = first_organization(orgList)

\* C14 as stated: with a slug in the session, no explicit slug and an
\* identity that is a member of that organization, the organization is
\* resolved and Organization.objects.get_for_user is not called.
C14_MemberResolvesWithoutFetch ==
    (/\ call.n > 0
     /\ call.last.arg = None
     /\ call.last.before # None
     /\ call.last.before \in Range(orgList)) =>
        /\ call.last.org = call.last.before
        /\ ~LastFetched

\* C14 amended: in that case the organization of the session is resolved
\* and the session is left alone; for an identity that is not a superuser
\* the accessible list is fetched exactly once and searched for the slug;
\* only for a superuser, whose direct lookup finds the VISIBLE
\* organization, is the list not fetched.
C14_MemberResolvesFetchingUnlessSuperuser ==
    (/\ call.n > 0
     /\ call.last.arg = None
     /\ call.last.before # None
     /\ call.last.before \in Range(orgList)) =>
        /\ ~is_superuser(user) =>
              /\ call.last.org = call.last.before
              /\ call.last.ops = <<>>
              /\ call.last.after = call.last.before
              /\ LastFetchCount = 1
              /\ call.last.calls = <<"get_for_user">>
        /\ (is_superuser(user)
              /\ get_from_cache(orgStatus, call.last.before) # None) =>
              /\ call.last.org = call.last.before
              /\ call.last.ops = <<>>
              /\ ~LastFetched

\* C14 witness: a member that is not a superuser resolves the session's
\* organization, which is not the first of the list, after one fetch.
C14_Witness ==
    /\ call.n > 0
    /\ call.last.arg = None
    /\ ~is_superuser(user)
    /\ call.last.before \in Range(orgList)
    /\ call.last.before # first_organization(orgList)
    /\ call.last.org = call.last.before
    /\ LastFetchCount = 1

\* C15: an explicit slug yields None or the organization of that slug, and
\* the session is then never pointed at another organization; an
\* organization other than the one looked for is returned only for an
\* implicit slug, and it is then the first of the accessible list.
C15_DefaultOnlyWhenImplicit ==
    call.n > 0 =>
        /\ call.last.arg # None =>
              /\ call.last.org \in {None, call.last.arg}
              /\ call.last.after \in {call.last.before, call.last.arg}
        /\ (call.last.org # None /\ call.last.org # LastSlug) =>
              /\ call.last.arg = None
              /\ LastFetched
              /\ call.last.org = first_organization(orgList)

\* C15 witness: an explicit slug was not found although the accessible list
\* has a first organization: the result is None.
C15_Witness ==
    /\ call.n > 0
    /\ call.last.arg # None
    /\ LastFetched
    /\ first_organization(orgList) # None
    /\ call.last.arg \notin Range(orgList)
    /\ call.last.org = None

\* C15 second case reached: a stale implicit slug was replaced by the first
\* accessible organization.
C15_WitnessDefault ==
    /\ call.n > 0
    /\ call.last.arg = None
    /\ call.last.before # None
    /\ call.last.org # None
    /\ call.last.org # call.last.before
    /\ call.last.org = first_organization(orgList)

C16_WitnessNoProject ==
    /\ PastConvert
    /\ req.view = "ProjectView"
    /\ kwargs.organization # None
    /\ rows.project = "no_access"
    /\ kwargs.project = None
    /\ kwargs.team = None

\* ------------------------------------------------ claims on has_access
\* C17: on an Access object has_access(required) is true exactly when the
\* role is not None and role <= required, OWNER being the smallest tier;
\* has_access is monotone in the required tier (a grant that satisfies a
\* tier satisfies every less privileged one), so has_access(OWNER) implies
\* has_access(ADMIN) and has_access(MEMBER), and is_owner implies is_admin.
C17_HasAccessOrder ==
    (IsOp("queries") /\ pure.grant.kind = "Access") =>
        /\ pure.out.has_access <=>
              (pure.grant.type # None /\ pure.grant.type <= pure.type)
        /\ OWNER < ADMIN /\ ADMIN < MEMBER
        /\ \A t1, t2 \in Tiers :
              (t1 <= t2 /\ has_access(pure.grant, t1)) =>
                  has_access(pure.grant, t2)
        /\ has_access(pure.grant, OWNER) =>
              (has_access(pure.grant, ADMIN) /\ has_access(pure.grant, MEMBER))
        /\ pure.out.is_owner <=> (pure.grant.type = OWNER)
        /\ pure.out.is_admin <=> (pure.grant.type \in {OWNER, ADMIN})
        /\ pure.out.is_owner => pure.out.is_admin

\* C17 witness: an ADMIN grant asked for OWNER is refused, and it is an
\* admin and not an owner.
C17_Witness ==
    /\ IsOp("queries")
    /\ pure.grant.kind = "Access"
    /\ pure.grant.type = ADMIN
    /\ pure.type = OWNER
    /\ ~pure.out.has_access
    /\ pure.out.is_admin
    /\ ~pure.out.is_owner

\* C17 second case reached: an OWNER grant asked for MEMBER is accepted.
C17_WitnessOwner ==
    /\ IsOp("queries")
    /\ pure.grant.kind = "Access"
    /\ pure.grant.type = OWNER
    /\ pure.type = MEMBER
    /\ pure.out.has_access
    /\ pure.out.is_owner
    /\ pure.out.is_admin

\* ------------------------------------------------ claims on the auth stage
\* The endpoint requires authentication and the identity has none.
MustLogIn == req.auth_required /\ ~is_authenticated(user)

\* The writes made to session['_next'] for this request.
NextWrites == {i \in DOMAIN sessOps : sessOps[i].key = "_next"}

\* C18: when the endpoint requires authentication and the identity is not
\* authenticated, the auth stage stores the full path under '_next' and
\* answers with the redirect to the organization's SSO login exactly when
\* the path carries an organization slug, and with the redirect to the
\* generic login otherwise; for an authenticated identity, or an endpoint
\* with auth_required false, the stage passes and '_next' is not written.
C18_AuthRequired ==
    (InFlight /\ Ran("is_auth_required")) =>
        /\ MustLogIn <=> Ran("handle_auth_required")
        /\ MustLogIn =>
              /\ pc = "done"
              /\ sessOps = <<SetPathOp("_next", FullPath)>>
              /\ session.next = FullPath
              /\ (req.organization_slug # None) <=>
                    (response.kind = "sso_login_redirect")
              /\ req.organization_slug # None =>
                    response = Response("sso_login_redirect",
                                        req.organization_slug, 0)
              /\ req.organization_slug = None =>
                    response = Response("login_redirect", None, 0)
        /\ ~MustLogIn =>
              /\ NextWrites = {}
              /\ response.kind \notin {"login_redirect", "sso_login_redirect"}
              /\ Ran("is_sudo_required") \/ pc = "sudo"

\* C18 witness: an anonymous request for a path that names an organization
\* was sent to that organization's SSO login with '_next' stored.
C18_Witness ==
    /\ pc = "done"
    /\ ~is_authenticated(user)
    /\ req.auth_required
    /\ req.organization_slug # None
    /\ response = Response("sso_login_redirect", req.organization_slug, 0)
    /\ session.next = FullPath
    /\ NextWrites # {}

\* C18 second case reached: an anonymous request for a path without an
\* organization slug was sent to the generic login.
C18_WitnessGeneric ==
    /\ pc = "done"
    /\ ~is_authenticated(user)
    /\ req.auth_required
    /\ req.organization_slug = None
    /\ response.kind = "login_redirect"
    /\ session.next = FullPath

\* C18 third case reached: an anonymous request passed the auth stage of an
\* endpoint that does not require authentication.
C18_WitnessNotRequired ==
    /\ InFlight
    /\ ~is_authenticated(user)
    /\ ~req.auth_required
    /\ Ran("is_sudo_required")
    /\ NextWrites = {}

\* ------------------------------------------------ claims on termination
\* The events of the trace that produce a response.
IsTerminalEvent(e) ==
    e \in {"handle_auth_required", "handle_sudo_required",
           "handle_permission_required", "handle"}

TerminalKinds ==
    {"login_redirect", "sso_login_redirect", "sudo_redirect",
     "no_permission_redirect", "sso_link_redirect", "handler"}

\* The state of a request between its arrival and its response.
C19_OneTerminalNoFault ==
    InFlight =>
        /\ response.kind # "unhandled_fault"
        /\ pc = "done" =>
              /\ response.kind \in TerminalKinds
              /\ Len(SelectSeq(trace, IsTerminalEvent)) = 1
              /\ IsTerminalEvent(trace[Len(trace)])
        /\ pc # "done" =>
              /\ response = NoResponse
              /\ Len(SelectSeq(trace, IsTerminalEvent)) = 0
        /\ PastConvert =>
              /\ kwargs.organization \in OrgSlugs \cup {None}
              /\ kwargs.organization # None =>
                    /\ orgStatus[kwargs.organization] = "VISIBLE"
                    /\ session.activeorg = kwargs.organization
              /\ kwargs.team \in Teams \cup {None}
              /\ kwargs.project \in Projects \cup {None}
              /\ rows.team = "DoesNotExist" => kwargs.team = None
              /\ rows.project = "DoesNotExist" => kwargs.project = None
              /\ (\E i \in DOMAIN sessOps : sessOps[i] = DelOp("activeorg")) =>
                    /\ req.activeorg # None
                    /\ Ran("get_for_user")
              /\ (req.view # "BaseView" /\ ~is_superuser(user)) =>
                    Ran("get_for_user")
              /\ (req.view # "BaseView" /\ kwargs.organization # None
                    /\ ~Ran("get_from_cache")) => Ran("get_for_user")

\* C19: every request reaches exactly one terminal response (a login
\* redirect, the sudo redirect, a denial redirect or the handler) and no
\* exception leaves dispatch: the three resolvers return an entity or None
\* for every session, path slug, identity and store contents, the
\* accessible list is fetched before it is searched or indexed, and
\* session['activeorg'] is deleted only when the key is present.
C19_EveryRequestAnswered ==
    /\ []C19_OneTerminalNoFault
    /\ (pc = "auth") ~> (pc = "done" /\ response.kind \in TerminalKinds)

\* C19 witness: a stale session slug was deleted, the accessible list was
\* empty, and the request of a caller who is not a superuser was answered
\* with the denial redirect.
C19_Witness ==
    /\ pc = "done"
    /\ ~is_superuser(user)
    /\ req.view = "ProjectView" \/ req.view = "OrganizationView"
    /\ req.organization_slug = None
    /\ req.activeorg # None
    /\ \E i \in DOMAIN sessOps : sessOps[i] = DelOp("activeorg")
    /\ orgList = <<>>
    /\ kwargs.organization = None
    /\ response.kind = "no_permission_redirect"

\* ------------------------------------------- claims on the accessible list
\* C20: for an identity that is not a superuser, whatever calls came before
\* and whatever the session and the path hold, get_active_organization
\* fetches the accessible list, and the organization it returns, every slug
\* it writes to session['activeorg'] and the slug it leaves there when it
\* returns an organization are of organizations in that list; a slug of
\* the session or of the path outside the list yields None or another
\* organization of the list.
C20_NonSuperuserWithinList ==
    (call.n > 0 /\ ~is_superuser(user)) =>
        /\ call.last.fault = "none"
        /\ LastFetchCount = 1
        /\ \A i \in DOMAIN call.last.calls :
              call.last.calls[i] # "get_from_cache"
        /\ call.last.org # None => call.last.org \in Range(orgList)
        /\ \A i \in LastSets : call.last.ops[i].value \in Range(orgList)
        /\ call.last.after # call.last.before =>
              call.last.after \in Range(orgList) \cup {None}
        /\ call.last.org # None => session.activeorg \in Range(orgList)
        /\ (LastSlug # None /\ LastSlug \notin Range(orgList)) =>
              /\ call.last.org # LastSlug
              /\ session.activeorg # LastSlug \/ call.last.arg # None

\* C20 witness: an identity that is not a superuser names in the path a
\* VISIBLE organization that is not in its list, while the list has other
\* organizations: the result is None and the session is untouched.
C20_Witness ==
    /\ call.n > 0
    /\ ~is_superuser(user)
    /\ call.last.arg # None
    /\ orgStatus[call.last.arg] = "VISIBLE"
    /\ call.last.arg \notin Range(orgList)
    /\ orgList # <<>>
    /\ call.last.org = None
    /\ call.last.ops = <<>>

\* C20 second case reached: the session holds the slug of a VISIBLE
\* organization outside the list; it is dropped for the first of the list.
C20_WitnessSession ==
    /\ call.n > 0
    /\ ~is_superuser(user)
    /\ call.last.arg = None
    /\ call.last.before # None
    /\ orgStatus[call.last.before] = "VISIBLE"
    /\ call.last.before \notin Range(orgList)
    /\ call.last.org \in Range(orgList)
    /\ session.activeorg = call.last.org

====
